---- MODULE Spec2Model ----
(***************************************************************************)
(* Model of tv-commercial-recognition: the capture loop of                 *)
(* AudioSegmenter.execute (segment_audio.py) and the Celery task           *)
(* export_segment (tasks.py).                                              *)
(*                                                                         *)
(* Times (silence_end, silence_duration, durations of the sink) are        *)
(* integers in one unit; the sink's size in bytes is counted in the bytes  *)
(* one unit of audio takes.  Wall-clock time `now` is counted in the       *)
(* seconds time.strftime("%Y%m%d%H%M%S") resolves, so a timestamp is the   *)
(* value of `now` and a path built from a timestamp is that value.         *)
(*                                                                         *)
(* The repository runs as two programs that share the broker's queue and   *)
(* the sink files.  Spec is the capture process (python segment_audio.py)  *)
(* with ffmpeg, the clock and the signals around it; the requests it       *)
(* sends stay in `jobs`.  WorkerSpec is the celery worker (tasks.py): it   *)
(* starts with the requests a running session has sent and runs            *)
(* export_segment on them while the session's sink grows.  FairSpec and    *)
(* FairWorkerSpec add the progress the two programs make on their own.     *)
(***************************************************************************)
EXTENDS Integers, Sequences, FiniteSets, TLC

\* ---------------------------------------------------------------- bounds
MaxT == 4
MaxSil == 2
MaxNow == 1
MaxAvail == 2
MaxJobs == 2

\* ------------------------------------------------------ program constants
\* max_temp_file_size_bytes (128 MiB in the source), in model size units
max_temp_file_size_bytes == 1
\* multiplier = 5 in export_segment
multiplier == 5
\* Celery's Task.max_retries, which @app.task(bind=True) leaves at its default
max_retries == 3

\* (min_segment_duration, max_segment_duration) pairs the constructor may get;
\* pydantic checks only that each is a float
DurationBounds == {<<1, 2>>, <<2, 2>>, <<2, 1>>, <<0, 1>>}

NoMatch == [end_time |-> -1, duration |-> 0]
NoPath == -1

VARIABLES
    min_segment_duration,   \* self.min_segment_duration
    max_segment_duration,   \* self.max_segment_duration
    dirs,                   \* whether execute has made segments_path and streams_path
    shutdown,               \* self._shutdown
    pc,                     \* where execute is
    p,                      \* the ffmpeg subprocess of the with-block
    tmp_audio_path,         \* the sink of the running session
    next_segment_start,     \* the cursor
    match,                  \* re.search on the chunk read last (NoMatch: None)
    session_event,          \* history: which event of its session was processed last
    session_jobs,           \* history: how many requests the session has sent
    last_log,               \* the last decision / interrupt message logged
    now,                    \* wall clock, in seconds
    sinks,                  \* path -> audio flushed to the file (-1: no file)
    jobs                    \* the export_segment tasks sent to the broker

vars == <<min_segment_duration, max_segment_duration, dirs, shutdown, pc, p,
          tmp_audio_path, next_segment_start, match, session_event, session_jobs,
          last_log, now, sinks, jobs>>

capture_vars == <<pc, p, tmp_audio_path, next_segment_start, match,
                  session_event, session_jobs, last_log>>
config_vars == <<min_segment_duration, max_segment_duration>>

Paths == 0..MaxNow

\* a silence event as the regex extracts it from a chunk: end_time is
\* non-decreasing within a session, duration is positive
SilenceEvents(cursor) ==
    [end_time : cursor..MaxT, duration : 1..MaxSil]

\* os.path.getsize(tmp_audio_path)
getsize(path) == sinks[path]

\* AudioSegment.from_mp3(path).duration_seconds
duration_seconds(path) == sinks[path]

Init ==
    /\ \E b \in DurationBounds :
         /\ min_segment_duration = b[1]
         /\ max_segment_duration = b[2]
    /\ dirs = FALSE
    /\ shutdown = FALSE
    /\ pc = "start"
    /\ p = "none"
    /\ tmp_audio_path = NoPath
    /\ next_segment_start = 0
    /\ match = NoMatch
    /\ session_event = "none"
    /\ session_jobs = 0
    /\ last_log = "none"
    /\ now = 0
    /\ sinks = [x \in Paths |-> -1]
    /\ jobs = <<>>

\* ------------------------------------------------------------ capture loop

\* mutant: execute without the _check_shutdown wrapper
Execute_unchecked ==
    /\ pc = "start"
    /\ pc' = "outer"
    /\ dirs' = TRUE
    /\ UNCHANGED <<config_vars, shutdown, p, tmp_audio_path,
                   next_segment_start, match, session_event, session_jobs,
                   last_log, now, sinks, jobs>>

\* _check_shutdown wrapper and the head of execute (the mkdir calls, taken
\* to succeed)
Execute ==
    /\ pc = "start"
    /\ pc' = IF shutdown THEN "done" ELSE "outer"
    /\ dirs' = IF shutdown THEN dirs ELSE TRUE
    /\ UNCHANGED <<config_vars, shutdown, p, tmp_audio_path,
                   next_segment_start, match, session_event, session_jobs, last_log,
                   now, sinks, jobs>>

\* mutant: the cursor is handed over from the session before
session_cursor_handed_over(previous) == previous

\* next_segment_start = 0.0 at the top of every session
session_cursor(previous) == 0

\* outer `while not self._shutdown`: a new session; ffmpeg -y creates or
\* truncates the file temp_<timestamp>.mp3
StartSession ==
    /\ pc = "outer"
    /\ ~shutdown
    /\ tmp_audio_path' = now
    /\ next_segment_start' = session_cursor(next_segment_start)
    /\ p' = "running"
    /\ sinks' = [sinks EXCEPT ![now] = 0]
    /\ pc' = "loop"
    /\ UNCHANGED <<config_vars, dirs, shutdown, match, last_log, now, jobs>>
    /\ session_event' = "none"
    /\ session_jobs' = 0

\* outer loop found the flag set: execute returns
Return ==
    /\ pc = "outer"
    /\ shutdown
    /\ pc' = "done"
    /\ UNCHANGED <<config_vars, dirs, shutdown, p, tmp_audio_path,
                   next_segment_start, match, session_event, session_jobs, last_log,
                   now, sinks, jobs>>

\* inner `while not self._shutdown`
LoopCheck ==
    /\ pc = "loop"
    /\ pc' = IF shutdown THEN "exit" ELSE "read"
    /\ UNCHANGED <<config_vars, dirs, shutdown, p, tmp_audio_path,
                   next_segment_start, match, session_event, session_jobs, last_log,
                   now, sinks, jobs>>

segment_duration(ev, cursor) == ev.end_time - ev.duration - cursor

\* mutant: the lower bound taken as exclusive
Accepts_strict(ev, cursor) ==
    /\ min_segment_duration < segment_duration(ev, cursor)
    /\ segment_duration(ev, cursor) <= max_segment_duration

\* mutant: the first event of a session only initializes the cursor
Accepts_after_first(ev, cursor) ==
    /\ session_event # "none"
    /\ min_segment_duration <= segment_duration(ev, cursor)
    /\ segment_duration(ev, cursor) <= max_segment_duration

\* mutant: only the upper bound is tested
Accepts_below_max(ev, cursor) ==
    segment_duration(ev, cursor) <= max_segment_duration

Accepts(ev, cursor) ==
    /\ min_segment_duration <= segment_duration(ev, cursor)
    /\ segment_duration(ev, cursor) <= max_segment_duration

\* mutant: the request ends where the silence ends
SegmentRequest_to_silence_end(path, cursor, ev) ==
    [path |-> path, start |-> cursor, end |-> ev.end_time,
     state |-> "PENDING", retries |-> 0, countdown |-> 0,
     save_path |-> NoPath, segment_end_silence_ms |-> -1, exported |-> -1,
     error |-> "none"]

\* mutant: every request starts at the beginning of the sink
SegmentRequest_from_zero(path, cursor, ev) ==
    [path |-> path, start |-> 0, end |-> ev.end_time - ev.duration,
     state |-> "PENDING", retries |-> 0, countdown |-> 0,
     save_path |-> NoPath, segment_end_silence_ms |-> -1, exported |-> -1,
     error |-> "none"]

\* the arguments of export_segment.delay(...), as a task waiting in the queue
SegmentRequest(path, cursor, ev) ==
    [path |-> path, start |-> cursor, end |-> ev.end_time - ev.duration,
     state |-> "PENDING", retries |-> 0, countdown |-> 0,
     save_path |-> NoPath, segment_end_silence_ms |-> -1, exported |-> -1,
     error |-> "none"]

\* mutant: the broker hands out the newest request first
delay_to_front(queue, request) == <<request>> \o queue

\* export_segment.delay(...): the broker's queue is first in, first out
delay(queue, request) == Append(queue, request)

\* mutant: a file of exactly the maximum size counts as too big
file_too_big_at_ceiling(path) == getsize(path) >= max_temp_file_size_bytes

file_too_big(path) == getsize(path) > max_temp_file_size_bytes

\* mutant: the cursor moves to the start of the silence
advance_cursor_to_segment_end(ev) == ev.end_time - ev.duration

\* next_segment_start = silence_end_seconds
advance_cursor(ev) == ev.end_time

\* one pass of the loop body on a chunk whose first match is ev
ReadMatch(ev) ==
    /\ pc = "read"
    /\ p = "running"
    /\ match' = ev
    /\ session_event' = IF session_event = "none" THEN "first" ELSE "later"
    /\ IF Accepts(ev, next_segment_start)
       THEN /\ Len(jobs) < MaxJobs
            /\ jobs' = delay(jobs,
                   SegmentRequest(tmp_audio_path, next_segment_start, ev))
            /\ session_jobs' = session_jobs + 1
            /\ last_log' = "Queuing segment export"
       ELSE /\ jobs' = jobs
            /\ session_jobs' = session_jobs
            /\ last_log' = "Segment is too short or too long"
    /\ next_segment_start' = advance_cursor(ev)
    /\ IF file_too_big(tmp_audio_path)
       THEN /\ p' = "terminated"
            /\ pc' = "exit"
       ELSE /\ p' = p
            /\ pc' = "loop"
    /\ UNCHANGED <<config_vars, dirs, shutdown, tmp_audio_path, now, sinks>>

\* a chunk without a match: another ffmpeg line, or b"" once ffmpeg has exited
ReadNoMatch ==
    /\ pc = "read"
    /\ p \in {"running", "exited"}
    /\ match' = NoMatch
    /\ pc' = "loop"
    /\ UNCHANGED <<config_vars, dirs, shutdown, p, tmp_audio_path,
                   next_segment_start, session_event, session_jobs, last_log, now,
                   sinks, jobs>>

\* except KeyboardInterrupt, raised while the loop waits in read1()
KeyboardInterrupt ==
    /\ pc = "read"
    /\ last_log' = "KeyboardInterrupt"
    /\ p' = IF p = "running" THEN "terminated" ELSE p
    /\ shutdown' = TRUE
    /\ pc' = "loop"
    /\ UNCHANGED <<config_vars, dirs, tmp_audio_path, next_segment_start, match,
                   session_event, session_jobs, now, sinks, jobs>>

\* mutant: the with-block is left without waiting for ffmpeg
PopenExit_without_wait ==
    /\ pc = "exit"
    /\ p' = "none"
    /\ pc' = "outer"
    /\ UNCHANGED <<config_vars, dirs, shutdown, tmp_audio_path,
                   next_segment_start, match, session_event, session_jobs,
                   last_log, now, sinks, jobs>>

\* Popen.__exit__: wait() returns once ffmpeg has exited
PopenExit ==
    /\ pc = "exit"
    /\ p = "exited"
    /\ p' = "none"
    /\ pc' = "outer"
    /\ UNCHANGED <<config_vars, dirs, shutdown, tmp_audio_path,
                   next_segment_start, match, session_event, session_jobs, last_log,
                   now, sinks, jobs>>

handle_sigterm ==
    /\ pc # "done"
    /\ ~shutdown
    /\ shutdown' = TRUE
    /\ UNCHANGED <<config_vars, dirs, capture_vars, now, sinks, jobs>>

\* ------------------------------------------------------------ environment

\* ffmpeg exits on its own (crash, device lost)
ProcExit ==
    /\ p = "running"
    /\ p' = "exited"
    /\ UNCHANGED <<config_vars, dirs, shutdown, pc, tmp_audio_path,
                   next_segment_start, match, session_event, session_jobs, last_log,
                   now, sinks, jobs>>

\* ffmpeg exits after p.terminate()
ProcTerminated ==
    /\ p = "terminated"
    /\ p' = "exited"
    /\ UNCHANGED <<config_vars, dirs, shutdown, pc, tmp_audio_path,
                   next_segment_start, match, session_event, session_jobs, last_log,
                   now, sinks, jobs>>

\* ffmpeg flushes more audio to its sink
SinkGrow ==
    /\ p = "running"
    /\ sinks[tmp_audio_path] < MaxAvail
    /\ sinks' = [sinks EXCEPT ![tmp_audio_path] = @ + 1]
    /\ UNCHANGED <<config_vars, dirs, shutdown, capture_vars, now, jobs>>

Tick ==
    /\ now < MaxNow
    /\ now' = now + 1
    /\ UNCHANGED <<config_vars, dirs, shutdown, capture_vars, sinks, jobs>>

\* ------------------------------------------------------------ export worker

\* len(segment[start_ms:end_ms]) of an AudioSegment of length n
slice_len(start, end, n) ==
    LET lo == IF start > n THEN n ELSE start
        hi == IF end > n THEN n ELSE end
    IN  IF hi > lo THEN hi - lo ELSE 0

\* mutant: the slice segment[:-k] taken whatever k is ([1, 2, 3][:-0] is [])
trimmed_len_unguarded(n, k) == IF k = 0 THEN 0 ELSE n - k

\* len(segment) after `if k > 0: segment = segment[:-k]`
trimmed_len(n, k) == IF k > 0 THEN n - k ELSE n

\* mutant: the deficit itself is taken as the countdown
countdown_without_multiplier(end, audio_file_len_seconds) ==
    end - audio_file_len_seconds

\* countdown = (segment_end_seconds - audio_file_len_seconds) * multiplier
countdown(end, audio_file_len_seconds) ==
    (end - audio_file_len_seconds) * multiplier

\* mutant: a task that retries for ever (max_retries = None)
retry_without_ceiling(job, cd) ==
    [job EXCEPT !.state = "RETRY", !.retries = @ + 1, !.countdown = cd]

\* self.retry(countdown=...): Celery sends the task again with retries + 1,
\* unless that exceeds max_retries, and then raises MaxRetriesExceededError
retry(job, cd) ==
    IF job.retries + 1 > max_retries
    THEN [job EXCEPT !.state = "FAILURE", !.countdown = 0,
                     !.error = "MaxRetriesExceededError"]
    ELSE [job EXCEPT !.state = "RETRY", !.retries = @ + 1, !.countdown = cd]

\* mutant: the start of the clip is compared with the length of the file
not_ready_by_start(job) == job.start > duration_seconds(job.path)

\* mutant: a clip that ends where the file ends is taken as not ready
not_ready_at_equal(job) == job.end >= duration_seconds(job.path)

\* segment_end_seconds > audio_file_len_seconds
not_ready(job) == job.end > duration_seconds(job.path)

\* mutant: a sink that cannot be decoded is taken as not ready yet
export_segment_retrying_unreadable(j, readable, k) ==
    /\ j \in 1..Len(jobs)
    /\ jobs[j].state \in {"PENDING", "RETRY"}
    /\ LET job == jobs[j]
           n == slice_len(job.start, job.end, duration_seconds(job.path))
       IN  /\ k \in 0..n
           /\ jobs' = [jobs EXCEPT ![j] =
                IF ~readable \/ sinks[job.path] < 0
                THEN [retry(job, multiplier) EXCEPT
                         !.error = "CouldntDecodeError"]
                ELSE IF not_ready(job)
                THEN retry(job, countdown(job.end, duration_seconds(job.path)))
                ELSE [job EXCEPT !.state = "SUCCESS", !.countdown = 0,
                                 !.save_path = now,
                                 !.segment_end_silence_ms = k,
                                 !.exported = trimmed_len(n, k)]]
    /\ UNCHANGED <<config_vars, dirs, shutdown, capture_vars, now, sinks>>

\* one run of the task export_segment on the j-th request; readable is
\* whether AudioSegment.from_mp3 decodes the file, k is what
\* detect_leading_silence finds at the end of the slice
export_segment(j, readable, k) ==
    /\ j \in 1..Len(jobs)
    /\ jobs[j].state \in {"PENDING", "RETRY"}
    /\ LET job == jobs[j]
           n == slice_len(job.start, job.end, duration_seconds(job.path))
       IN  /\ k \in 0..n
           /\ jobs' = [jobs EXCEPT ![j] =
                IF ~readable \/ sinks[job.path] < 0
                THEN [job EXCEPT !.state = "FAILURE", !.countdown = 0,
                                 !.error = "CouldntDecodeError"]
                ELSE IF not_ready(job)
                THEN retry(job, countdown(job.end, duration_seconds(job.path)))
                ELSE [job EXCEPT !.state = "SUCCESS", !.countdown = 0,
                                 !.save_path = now,
                                 !.segment_end_silence_ms = k,
                                 !.exported = trimmed_len(n, k)]]
    /\ UNCHANGED <<config_vars, dirs, shutdown, capture_vars, now, sinks>>

Worker ==
    \E j \in 1..MaxJobs, readable \in BOOLEAN, k \in 0..MaxT :
        export_segment(j, readable, k)

Capture ==
    \/ Execute
    \/ StartSession
    \/ Return
    \/ LoopCheck
    \/ \E ev \in SilenceEvents(next_segment_start) : ReadMatch(ev)
    \/ ReadNoMatch
    \/ KeyboardInterrupt
    \/ PopenExit

Next ==
    \/ Capture
    \/ handle_sigterm
    \/ ProcExit
    \/ ProcTerminated
    \/ SinkGrow
    \/ Tick

Spec == Init /\ [][Next]_vars

\* ------------------------------------------------------ the worker process

\* the requests a capture session on sink `path` can send
Requests(path) ==
    { SegmentRequest(path, c, ev) :
        <<c, ev>> \in { x \in (0..MaxT) \X SilenceEvents(0) :
                          /\ x[2].end_time >= x[1]
                          /\ Accepts(x[2], x[1]) } }

\* the queues of at most n requests one session on sink `path` can send: a
\* request starts at a cursor, which lies at or beyond the end of the silence
\* that closed the request before it
RECURSIVE Queues(_, _)
Queues(path, n) ==
    IF n = 0 THEN {<<>>}
    ELSE LET shorter == Queues(path, n - 1)
             full == {x \in shorter : Len(x) = n - 1}
         IN  shorter \cup
             { Append(q, r) : <<q, r>> \in
                 { y \in full \X Requests(path) :
                     Len(y[1]) > 0 => y[2].start > y[1][Len(y[1])].end } }

\* the celery worker starts with the requests a running session has sent so far
WorkerInit ==
    /\ \E b \in DurationBounds :
         /\ min_segment_duration = b[1]
         /\ max_segment_duration = b[2]
    /\ dirs = TRUE
    /\ shutdown = FALSE
    /\ pc = "read"
    /\ p = "running"
    /\ tmp_audio_path = 0
    /\ next_segment_start = 0
    /\ match = NoMatch
    /\ session_event = "none"
    /\ last_log = "none"
    /\ now = 0
    /\ sinks = [x \in Paths |-> IF x = 0 THEN 0 ELSE -1]
    /\ jobs \in Queues(0, MaxJobs)
    /\ session_jobs = Len(jobs)

WorkerNext ==
    \/ Worker
    \/ SinkGrow
    \/ Tick

WorkerSpec == WorkerInit /\ [][WorkerNext]_vars

\* a worker of the pool runs every task the broker holds, a retried one once
\* its countdown has passed
FairWorkerSpec ==
    /\ WorkerSpec
    /\ \A j \in 1..MaxJobs :
         WF_vars(\E readable \in BOOLEAN, k \in 0..MaxT :
                    export_segment(j, readable, k))

\* the capture loop runs whenever it can (read1 returns whatever ffmpeg
\* wrote, or b"" at end of file), and ffmpeg exits once it is terminated
FairSpec ==
    /\ Spec
    /\ WF_vars(Capture)
    /\ WF_vars(ProcTerminated)
\* ------------------------------------------------------------------ claims

\* a step of the capture loop that processed a silence event (match' is it)
EventProcessed ==
    /\ pc = "read"
    /\ pc' # "read"
    /\ match' # NoMatch
    /\ last_log' # "KeyboardInterrupt"

Enqueued == Len(jobs') = Len(jobs) + 1

InBounds(d) == min_segment_duration <= d /\ d <= max_segment_duration

\* C1: for every silence event the capture loop processes, an export request
\* is enqueued iff min_segment_duration <= (end_time - duration) - cursor <=
\* max_segment_duration, both bounds included; outside the interval the
\* candidate is only logged and the queue is left as it was.
C1_AcceptIffInBounds ==
    [][EventProcessed =>
        LET d == match'.end_time - match'.duration - next_segment_start
        IN  /\ Enqueued <=> InBounds(d)
            /\ InBounds(d) => last_log' = "Queuing segment export"
            /\ ~InBounds(d) =>
                 /\ jobs' = jobs
                 /\ last_log' = "Segment is too short or too long"]_vars

\* C1 witness: a candidate of exactly max_segment_duration (> min) was queued
\* and the event read last was rejected
C1_Witness ==
    /\ min_segment_duration < max_segment_duration
    /\ \E j \in 1..Len(jobs) :
         jobs[j].end - jobs[j].start = max_segment_duration
    /\ \E j \in 1..Len(jobs) :
         jobs[j].end - jobs[j].start = min_segment_duration
    /\ match # NoMatch
    /\ last_log = "Segment is too short or too long"

\* C2 (as claimed): the first silence event of a session only initializes the
\* cursor: no export request is enqueued for it.
C2_FirstEventNeverEnqueued ==
    [][(EventProcessed /\ session_event = "none") => jobs' = jobs]_vars

\* C2 (amended): the first silence event of a session is evaluated like any
\* other, as a candidate starting at cursor 0: a request with start 0 is
\* enqueued for it iff min <= end_time - duration <= max, and the cursor is
\* then its end_time.
C2_FirstEventEvaluatedFromZero ==
    [][(EventProcessed /\ session_event = "none") =>
        LET end == match'.end_time - match'.duration
        IN  /\ next_segment_start = 0
            /\ Enqueued <=> InBounds(end)
            /\ Enqueued => /\ jobs'[Len(jobs')].start = 0
                           /\ jobs'[Len(jobs')].end = end
            /\ next_segment_start' = match'.end_time]_vars

\* C2 witness: the first event of a session has just been queued for export
C2_Witness ==
    /\ session_event = "first"
    /\ match # NoMatch
    /\ last_log = "Queuing segment export"
    /\ Len(jobs) > 0
    /\ jobs[Len(jobs)].start = 0
    /\ jobs[Len(jobs)].end = match.end_time - match.duration

\* C3: after a silence event is processed the cursor is its end_time, accepted
\* or rejected, and within a session the cursor never decreases.
C3_CursorFollowsEndTime ==
    [][/\ EventProcessed => next_segment_start' = match'.end_time
       /\ ~(pc = "outer" /\ pc' = "loop") =>
            next_segment_start' >= next_segment_start]_vars

\* C3 witness: the cursor stands at the end_time of a rejected event, and an
\* earlier event of the session was accepted
C3_Witness ==
    /\ session_event = "later"
    /\ match # NoMatch
    /\ last_log = "Segment is too short or too long"
    /\ next_segment_start = match.end_time
    /\ \E j \in 1..Len(jobs) :
         jobs[j].path = tmp_audio_path /\ jobs[j].end < next_segment_start

\* C4: a request enqueued on Accept carries the cursor held before the event
\* as start, end_time - duration as end, and the sink of the session the event
\* was read in as path.
C4_RequestFields ==
    [][(EventProcessed /\ Enqueued) =>
        LET r == jobs'[Len(jobs')]
        IN  /\ r.start = next_segment_start
            /\ r.end = match'.end_time - match'.duration
            /\ r.path = tmp_audio_path
            /\ r.path = tmp_audio_path'
            /\ r.state = "PENDING"
            /\ \A j \in 1..Len(jobs) : jobs'[j] = jobs[j]]_vars

\* C4 witness: a request of the running session that starts at a cursor an
\* earlier event left
C4_Witness ==
    /\ match # NoMatch
    /\ last_log = "Queuing segment export"
    /\ Len(jobs) > 0
    /\ jobs[Len(jobs)].start > 0
    /\ jobs[Len(jobs)].end = match.end_time - match.duration
    /\ jobs[Len(jobs)].path = tmp_audio_path
\* a step in which a worker ran the j-th task
Attempted(j) == j <= Len(jobs) /\ jobs'[j] # jobs[j]

\* the probe of the j-th task finds the sink shorter than the clip's end
Short(j) == jobs[j].end > sinks[jobs[j].path]

\* C5 (as claimed): an attempt whose probe found request.end beyond the
\* available duration never exports and ends in a reschedule.
C5_ShortAttemptReschedules ==
    [][\A j \in 1..MaxJobs :
         (Attempted(j) /\ Short(j) /\ jobs'[j].error # "CouldntDecodeError")
           => /\ jobs'[j].state = "RETRY"
              /\ jobs'[j].save_path = NoPath
              /\ jobs'[j].exported = -1]_vars

\* C5 (amended): an attempt whose probe found request.end beyond the available
\* duration never exports: it extracts and writes nothing and ends in a
\* reschedule or, when the task has used its max_retries retries, in failure.
C5_ShortAttemptNeverExports ==
    [][\A j \in 1..MaxJobs :
         (Attempted(j) /\ Short(j) /\ jobs'[j].error # "CouldntDecodeError")
           => /\ jobs'[j].state \in {"RETRY", "FAILURE"}
              /\ jobs'[j].state = "FAILURE" =>
                   /\ jobs[j].retries = max_retries
                   /\ jobs'[j].error = "MaxRetriesExceededError"
              /\ jobs'[j].save_path = NoPath
              /\ jobs'[j].exported = -1]_vars

\* C5 witness: a task was rescheduled and its sink is still short of its end
C5_Witness ==
    \E j \in 1..Len(jobs) :
        /\ jobs[j].state = "RETRY"
        /\ jobs[j].end > sinks[jobs[j].path]
        /\ sinks[jobs[j].path] >= jobs[j].start
        /\ jobs[j].save_path = NoPath

\* C6 (as claimed): every attempt that finds request.end beyond the available
\* duration reschedules the task with countdown = deficit * 5 > 0 and the same
\* arguments.
C6_ShortAttemptCountdown ==
    [][\A j \in 1..MaxJobs :
         (Attempted(j) /\ Short(j) /\ jobs'[j].error # "CouldntDecodeError")
           => /\ jobs'[j] = [jobs[j] EXCEPT
                              !.state = "RETRY",
                              !.retries = @ + 1,
                              !.countdown =
                                 (jobs[j].end - sinks[jobs[j].path]) * 5]
              /\ jobs'[j].countdown > 0]_vars

\* C6 (amended): the same, for an attempt of a task that has retries left
\* (fewer than max_retries = 3 so far).
C6_CountdownWhileRetriesLeft ==
    [][\A j \in 1..MaxJobs :
         (/\ Attempted(j)
          /\ Short(j)
          /\ jobs'[j].error # "CouldntDecodeError"
          /\ jobs[j].retries < max_retries)
           => /\ jobs'[j] = [jobs[j] EXCEPT
                              !.state = "RETRY",
                              !.retries = @ + 1,
                              !.countdown =
                                 (jobs[j].end - sinks[jobs[j].path]) * 5]
              /\ jobs'[j].countdown > 0]_vars

\* C6 witness: a task waits with the countdown of a deficit of two units
C6_Witness ==
    \E j \in 1..Len(jobs) :
        /\ jobs[j].state = "RETRY"
        /\ jobs[j].end - sinks[jobs[j].path] = 2
        /\ jobs[j].countdown = 10

\* C7 (as claimed): a task on a readable sink that has reached request.end is
\* exported however many re-probes it took: it is never in the Failed state.
C7_NeverFailedOnceSinkCaughtUp ==
    \A j \in 1..Len(jobs) :
        (/\ jobs[j].end <= sinks[jobs[j].path]
         /\ jobs[j].error # "CouldntDecodeError")
          => jobs[j].state # "FAILURE"

\* C7 (amended): a task that still has an attempt to make when its readable
\* sink has reached request.end is eventually exported.
C7_ExportedOnceReadyInTime ==
    \A j \in 1..MaxJobs :
        [](( /\ j <= Len(jobs)
             /\ jobs[j].state \in {"PENDING", "RETRY"}
             /\ jobs[j].end <= sinks[jobs[j].path])
            => <>( /\ j <= Len(jobs)
                   /\ \/ jobs[j].state = "SUCCESS"
                      \/ jobs[j].error = "CouldntDecodeError"))

\* C7 witness: a task exported at its last attempt, after three re-probes
C7_Witness ==
    \E j \in 1..Len(jobs) :
        /\ jobs[j].state = "SUCCESS"
        /\ jobs[j].retries = max_retries
        /\ jobs[j].exported >= 0

\* C8 (as claimed): while its sink is short of request.end a task is never in a
\* terminal state (it is rescheduled without bound).
C8_NeverTerminalWhileShort ==
    \A j \in 1..Len(jobs) :
        (/\ jobs[j].end > sinks[jobs[j].path]
         /\ jobs[j].error # "CouldntDecodeError")
          => jobs[j].state \notin {"SUCCESS", "FAILURE"}

\* C8 (amended): a task is rescheduled at most max_retries = 3 times: the
\* attempt that finds the sink short after three retries ends in the terminal
\* Failed state (MaxRetriesExceededError), and never in Exported.
C8_RetryCeiling ==
    [][\A j \in 1..MaxJobs :
         /\ j <= Len(jobs') => jobs'[j].retries <= 3
         /\ (Attempted(j) /\ Short(j)
               /\ jobs'[j].error # "CouldntDecodeError")
              => IF jobs[j].retries < 3
                 THEN /\ jobs'[j].state = "RETRY"
                      /\ jobs'[j].retries = jobs[j].retries + 1
                 ELSE /\ jobs'[j].state = "FAILURE"
                      /\ jobs'[j].error = "MaxRetriesExceededError"]_vars

\* C8 witness: a task failed at its fourth attempt on a sink still short
C8_Witness ==
    \E j \in 1..Len(jobs) :
        /\ jobs[j].state = "FAILURE"
        /\ jobs[j].error = "MaxRetriesExceededError"
        /\ jobs[j].retries = 3
        /\ jobs[j].end > sinks[jobs[j].path]
\* C9: when ffmpeg exits on its own and no shutdown is requested, the capture
\* loop eventually leaves the session and starts a new subprocess.
C9_RestartAfterUnexpectedExit ==
    (p = "exited" /\ pc \in {"loop", "read"}) ~> (shutdown \/ p = "running")

\* C10 (as claimed): whenever the running session's sink is over the ceiling
\* and no shutdown is requested, the subprocess is eventually terminated.
C10_RotatesWheneverTooBig ==
    (/\ p = "running"
     /\ pc \in {"loop", "read"}
     /\ sinks[tmp_audio_path] > max_temp_file_size_bytes)
      ~> (shutdown \/ p # "running")

\* C10 (amended): the size of the sink is looked at when a silence event is
\* processed, and only then: if it is over the ceiling the subprocess is
\* terminated in that pass and the read loop is left, otherwise the session
\* goes on; the read loop is left for a rotation in no other way; and once the
\* loop has been left a new session is started on the sink the current
\* timestamp names, unless shutdown is requested first.
C10_RotatesAtSilenceEvent ==
    /\ [][/\ EventProcessed =>
              IF sinks[tmp_audio_path] > max_temp_file_size_bytes
              THEN p' = "terminated" /\ pc' = "exit"
              ELSE p' = "running" /\ pc' = "loop"
          /\ (pc = "read" /\ pc' = "exit") =>
               /\ EventProcessed
               /\ sinks[tmp_audio_path] > max_temp_file_size_bytes]_vars
    /\ (pc = "exit" /\ p = "terminated")
         ~> (shutdown \/ (/\ pc = "loop"
                          /\ p = "running"
                          /\ session_event = "none"
                          /\ sinks[tmp_audio_path] >= 0))

\* C10 witness: a new session runs, and the sink of an earlier session is
\* over the ceiling
C10_Witness ==
    /\ ~shutdown
    /\ p = "running"
    /\ session_event = "none"
    /\ \E x \in Paths :
         x # tmp_audio_path /\ sinks[x] > max_temp_file_size_bytes

\* a step of the outer loop that starts a session
SessionStarted == pc = "outer" /\ pc' = "loop"

\* the requests the running session has sent: the last session_jobs of the queue
SessionRequests == SubSeq(jobs, Len(jobs) - session_jobs + 1, Len(jobs))

C12_ShutdownTerminatesAndReturns ==
    /\ shutdown ~> (pc = "done" /\ p = "none")
    /\ [][shutdown => ~SessionStarted]_vars

\* a call of execute: the step that leaves the entry of the method
ExecuteCalled == pc = "start" /\ pc' # "start"

\* C13 (as claimed): once the shutdown flag is set a call of execute returns
\* without making directories or starting a subprocess, and no export request
\* is enqueued at any point after the flag has been set.
C13_NothingEnqueuedOnceShutdown ==
    [][/\ (ExecuteCalled /\ shutdown) =>
             /\ pc' = "done"
             /\ dirs' = dirs
             /\ p' = "none"
             /\ sinks' = sinks
       /\ shutdown => jobs' = jobs]_vars

\* C13 (amended): once the flag is set a call of execute returns without
\* making directories or starting a subprocess; the flag stays set; the read
\* loop looks at it between passes only, so no pass begins once it is set, and
\* a request is enqueued after that only by the pass that was reading when the
\* flag was set (hence at most one).
C13_NoOpOnceShutdown ==
    [][/\ (ExecuteCalled /\ shutdown) =>
             /\ pc' = "done"
             /\ dirs' = dirs
             /\ p' = "none"
             /\ sinks' = sinks
             /\ jobs' = jobs
       /\ shutdown => shutdown'
       /\ (shutdown /\ pc # "read") => (pc' # "read" /\ jobs' = jobs)
       /\ (shutdown /\ jobs' # jobs) => pc' \in {"loop", "exit"}
       /\ (shutdown /\ p # "running") => p' # "running"]_vars

\* C13 witness: execute was called with the flag set and has returned: no
\* directory, no sink, no subprocess, no request
C13_Witness ==
    /\ shutdown
    /\ pc = "done"
    /\ ~dirs
    /\ p = "none"
    /\ tmp_audio_path = NoPath
    /\ \A x \in Paths : sinks[x] < 0
    /\ jobs = <<>>

\* C14: any two export attempts that write an artifact write to distinct
\* paths: no two exported tasks have the same save_path.
C14_ArtifactPathsDistinct ==
    \A i, j \in 1..Len(jobs) :
        (/\ i # j
         /\ jobs[i].state = "SUCCESS"
         /\ jobs[j].state = "SUCCESS")
          => jobs[i].save_path # jobs[j].save_path

\* C15: the sink a newly started session opens has a name no earlier session
\* of the run has used: no file of that name exists when the session starts.
C15_SinkNamesDistinct ==
    [][SessionStarted => sinks[tmp_audio_path'] < 0]_vars

\* C16: within a session requests are enqueued in the order their candidates
\* are accepted: a request is only ever appended, behind all earlier ones
\* (which stay as they are), it starts at the cursor the event found, and so
\* the starts of a session's requests increase along the queue.
C16_EnqueuedInAcceptanceOrder ==
    /\ [][\/ jobs' = jobs
          \/ /\ EventProcessed
             /\ Len(jobs') = Len(jobs) + 1
             /\ SubSeq(jobs', 1, Len(jobs)) = jobs
             /\ jobs'[Len(jobs')].start = next_segment_start
             /\ jobs'[Len(jobs')].end = match'.end_time - match'.duration
             /\ SessionRequests' =
                  Append(SessionRequests, jobs'[Len(jobs')])]_vars
    /\ [](\A i, j \in 1..Len(SessionRequests) :
            i < j => /\ SessionRequests[i].start < SessionRequests[j].start
                     /\ SessionRequests[i].end < SessionRequests[j].end)

\* C16 witness: one session has sent two requests, with a rejected event
\* between the two accepted ones
C16_Witness ==
    /\ session_jobs = 2
    /\ Len(jobs) = 2
    /\ jobs[1].path = tmp_audio_path
    /\ jobs[2].path = tmp_audio_path
    /\ jobs[1].start < jobs[2].start
    /\ jobs[2].start > jobs[1].end + MaxSil

\* C17 (as claimed): every enqueued request has 0 <= start < end, whatever
\* the duration bounds are.
C17_StartBeforeEnd ==
    \A j \in 1..Len(jobs) :
        0 <= jobs[j].start /\ jobs[j].start < jobs[j].end

\* C17 (amended): every enqueued request has 0 <= start and
\* min_segment_duration <= end - start <= max_segment_duration, hence
\* 0 <= start < end when min_segment_duration > 0.
C17_StartBeforeEndForPositiveMin ==
    \A j \in 1..Len(jobs) :
        /\ 0 <= jobs[j].start
        /\ min_segment_duration <= jobs[j].end - jobs[j].start
        /\ jobs[j].end - jobs[j].start <= max_segment_duration
        /\ min_segment_duration > 0 => jobs[j].start < jobs[j].end

\* C17 witness: with a positive minimum, a request of exactly the minimum
\* duration that starts at a cursor beyond 0
C17_Witness ==
    /\ min_segment_duration > 0
    /\ \E j \in 1..Len(jobs) :
         /\ jobs[j].start > 0
         /\ jobs[j].end = jobs[j].start + min_segment_duration

\* C18: there is at most one capture subprocess and it writes to one sink: a
\* subprocess lives only inside the with-block of its session, only the sink
\* of that session grows, a session starts only when no subprocess is left,
\* and the with-block is left only once its subprocess has exited; a rotation
\* terminates the subprocess in the pass that leaves the read loop.
C18_OneSubprocessOneSink ==
    /\ [](/\ p \in {"running", "terminated", "exited"} =>
               /\ pc \in {"loop", "read", "exit"}
               /\ tmp_audio_path \in Paths
               /\ sinks[tmp_audio_path] >= 0
          /\ pc \in {"start", "outer", "done"} => p = "none")
    /\ [][/\ SessionStarted => (p = "none" /\ p' = "running")
          /\ (p' = "running" /\ p # "running") => SessionStarted
          /\ (pc = "read" /\ pc' = "exit") => (p = "running" /\ p' = "terminated")
          /\ (pc = "exit" /\ pc' # "exit") => (p = "exited" /\ p' = "none")
          /\ sinks' # sinks =>
               /\ p' = "running"
               /\ \A x \in Paths :
                    x # tmp_audio_path' => sinks'[x] = sinks[x]]_vars

\* C18 witness: after a rotation the subprocess of the new session writes to
\* its sink, next to the sink the session before left
C18_Witness ==
    /\ p = "running"
    /\ pc = "read"
    /\ sinks[tmp_audio_path] > 0
    /\ \E x \in Paths : x # tmp_audio_path /\ sinks[x] >= 0

\* C19: an attempt that finds its sink readable and long enough exports
\* whatever the trailing silence k is: with k = 0 the exported clip has the
\* length of the extracted range, with k > 0 that length less k, and a clip of
\* length zero (k the whole range) is exported as a success like any other;
\* an exported task is never run again.
C19_TrailingSilenceTrim ==
    [][\A j \in 1..MaxJobs :
         /\ (/\ Attempted(j)
             /\ jobs[j].end <= sinks[jobs[j].path]
             /\ jobs'[j].error # "CouldntDecodeError") =>
              LET n == slice_len(jobs[j].start, jobs[j].end,
                                 sinks[jobs[j].path])
                  k == jobs'[j].segment_end_silence_ms
              IN  /\ jobs'[j].state = "SUCCESS"
                  /\ jobs'[j].error = "none"
                  /\ jobs'[j].save_path # NoPath
                  /\ k \in 0..n
                  /\ k = 0 => jobs'[j].exported = n
                  /\ k > 0 => jobs'[j].exported = n - k
         /\ (j <= Len(jobs) /\ jobs[j].state = "SUCCESS") =>
              jobs'[j] = jobs[j]]_vars

\* C19 witness: a clip of two units, all of it trailing silence, was exported
\* with length zero
C19_Witness ==
    \E j \in 1..Len(jobs) :
        /\ jobs[j].state = "SUCCESS"
        /\ jobs[j].end - jobs[j].start = 2
        /\ jobs[j].segment_end_silence_ms = 2
        /\ jobs[j].exported = 0
        /\ jobs[j].save_path # NoPath

\* C20: an attempt that cannot decode its sink puts the task in the terminal
\* Failed state: it is not rescheduled (its retry count stays), nothing is
\* extracted or written, and a failed task is never run again.
C20_UnreadableSinkFails ==
    [][\A j \in 1..MaxJobs :
         /\ (Attempted(j) /\ jobs'[j].error = "CouldntDecodeError") =>
              /\ jobs'[j].state = "FAILURE"
              /\ jobs'[j].retries = jobs[j].retries
              /\ jobs'[j].save_path = NoPath
              /\ jobs'[j].segment_end_silence_ms = -1
              /\ jobs'[j].exported = -1
         /\ (j <= Len(jobs) /\ jobs[j].state = "FAILURE") =>
              jobs'[j] = jobs[j]]_vars

\* C20 witness: a task that had been rescheduled once failed on a sink that
\* held its whole clip but could not be decoded
C20_Witness ==
    \E j \in 1..Len(jobs) :
        /\ jobs[j].state = "FAILURE"
        /\ jobs[j].error = "CouldntDecodeError"
        /\ jobs[j].retries = 1
        /\ jobs[j].end <= sinks[jobs[j].path]
        /\ jobs[j].save_path = NoPath

\* C21: with invalid duration bounds (min_segment_duration greater than
\* max_segment_duration) execute fails before any capture begins: no
\* subprocess is ever started, no sink is opened and no request is enqueued.
C21_InvalidBoundsNeverCapture ==
    min_segment_duration > max_segment_duration =>
        /\ p = "none"
        /\ tmp_audio_path = NoPath
        /\ \A x \in Paths : sinks[x] < 0
        /\ jobs = <<>>

\* C22: the requests of one session denote time ranges of its sink that do
\* not overlap: of two requests a session has sent, the later one starts
\* beyond the end of the earlier one; and a request sent behind another of its
\* session starts at the cursor, which is at or beyond the end of the silence
\* that closed the earlier one (its end plus a positive silence duration).
C22_SessionRangesDisjoint ==
    /\ [](\A i, j \in 1..Len(SessionRequests) :
            i < j => SessionRequests[j].start > SessionRequests[i].end)
    /\ [][(EventProcessed /\ Enqueued /\ session_jobs > 0) =>
            /\ jobs'[Len(jobs')].start = next_segment_start
            /\ next_segment_start >= jobs[Len(jobs)].end + 1
            /\ jobs[Len(jobs)].path = tmp_audio_path]_vars

\* C22 witness: a session has sent two requests of positive length, the
\* second starting right where the silence of one unit after the first ended
C22_Witness ==
    /\ session_jobs = 2
    /\ Len(SessionRequests) = 2
    /\ SessionRequests[1].start < SessionRequests[1].end
    /\ SessionRequests[2].start = SessionRequests[1].end + 1
    /\ SessionRequests[2].start < SessionRequests[2].end
====
